---- MODULE Spec2Model ----
(***************************************************************************)
(* Model of lib/assets/multi-secret-creator/lambda_handler.py:             *)
(*   generate_secret_value     - alphabet construction and random string   *)
(*   generate_multiple_secrets - batch loop with template merge            *)
(*   handler                   - CloudFormation custom resource handler    *)
(* A Python str is a sequence of one-character strings.  Every random draw *)
(* (secrets.choice, SystemRandom().shuffle) is a nondeterministic choice   *)
(* over all the values the draw can produce.                               *)
(***************************************************************************)
EXTENDS Integers, Sequences, FiniteSets, TLC

VARIABLES
    event,          \* handler's argument
    pc,             \* where handler is: "start", "loop", "done", "raised"
    idx,            \* the number of SecretKeys records the loop has completed
    key_config,     \* the record the loop is at (line 124)
    args,           \* the arguments of the latest generate_secret_value call
    result,         \* what that call returned or raised
    secret_values,  \* the dict generate_multiple_secrets builds (line 122)
    names_read,     \* the names of the records the loop has completed
    store,          \* the update_secret calls made so far
    response        \* what handler returned or raised

vars == <<event, pc, idx, key_config, args, result, secret_values, names_read,
          store, response>>

(***************************************************************************)
(* Bounds of the model.                                                    *)
(***************************************************************************)
\* number of characters kept of each multi-character class
ClassSize == 2
\* largest password_length passed to generate_secret_value directly
MaxLen == 3
\* largest passwordLength of a SecretKeys record
MaxBatchLen == 1
\* largest number of SecretKeys records of an event
MaxKeys == 2

(***************************************************************************)
(* Python helpers.                                                         *)
(***************************************************************************)
Min(a, b) == IF a <= b THEN a ELSE b

Max(a, b) == IF a >= b THEN a ELSE b

Range(s) == {s[i] : i \in 1..Len(s)}

\* c in s, for a character c and a str s
In(c, s) == \E i \in 1..Len(s) : s[i] = c

\* ''.join(c for c in s if c not in excluded)
Without(s, excluded) == SelectSeq(s, LAMBDA c : ~In(c, excluded))

\* Slice without the cut: the whole buffer is returned
SliceWhole(s, n) == s

\* s[:n], Python slicing: a negative n counts from the end
Slice(s, n) ==
    IF n >= 0 THEN SubSeq(s, 1, Min(n, Len(s)))
    ELSE SubSeq(s, 1, Max(Len(s) + n, 0))

\* the values of ''.join(secrets.choice(chars) for _ in range(n)), chars non-empty
Choices(chars, n) == [1..Max(n, 0) -> Range(chars)]

\* the orders secrets.SystemRandom().shuffle can leave the list in
Shuffles(s) == {[i \in 1..Len(s) |-> s[p[i]]] : p \in Permutations(1..Len(s))}

(***************************************************************************)
(* The character classes (lines 44-48), each cut to its first ClassSize    *)
(* characters.                                                             *)
(***************************************************************************)
ascii_lowercase ==
    <<"a","b","c","d","e","f","g","h","i","j","k","l","m",
      "n","o","p","q","r","s","t","u","v","w","x","y","z">>

ascii_uppercase ==
    <<"A","B","C","D","E","F","G","H","I","J","K","L","M",
      "N","O","P","Q","R","S","T","U","V","W","X","Y","Z">>

ascii_digits == <<"0","1","2","3","4","5","6","7","8","9">>

ascii_punctuation ==
    <<"!","@","#","$","%","^","&","*","(",")","_","+","-",
      "=","[","]","{","}","|",";",":",",",".","<",">","?">>

Cut(s) == SubSeq(s, 1, Min(ClassSize, Len(s)))

lowercase == Cut(ascii_lowercase)

uppercase == Cut(ascii_uppercase)

digits == Cut(ascii_digits)

punctuation == Cut(ascii_punctuation)

space == <<" ">>

(***************************************************************************)
(* generate_secret_value (lines 15-109).                                   *)
(***************************************************************************)
\* lines 43-60: the enabled classes, joined (line 63)
char_sets(a) ==
    (IF ~a.exclude_lowercase THEN lowercase ELSE <<>>)
    \o (IF ~a.exclude_uppercase THEN uppercase ELSE <<>>)
    \o (IF ~a.exclude_numbers THEN digits ELSE <<>>)
    \o (IF ~a.exclude_punctuation THEN punctuation ELSE <<>>)
    \o (IF a.include_space THEN space ELSE <<>>)

\* all_chars without lines 66-67: exclude_characters is ignored
all_chars_unfiltered(a) == char_sets(a)

\* lines 63-67
all_chars(a) ==
    IF a.exclude_characters # <<>>
    THEN Without(char_sets(a), a.exclude_characters)
    ELSE char_sets(a)

\* MandatoryOf drawing from the class itself, not from its available subset
MandatoryOfUnfiltered(enabled, class, a) ==
    IF enabled THEN {<<c>> : c \in Range(class)} ELSE {<<>>}

\* lines 76-94: the characters one enabled class can put into the buffer
MandatoryOf(enabled, class, a) ==
    LET available == Without(class, a.exclude_characters)
    IN  IF enabled /\ available # <<>>
        THEN {<<c>> : c \in Range(available)}
        ELSE {<<>>}

\* lines 96-97
MandatorySpace(a) ==
    IF a.include_space /\ ~In(" ", a.exclude_characters) THEN {space} ELSE {<<>>}

\* lines 74-97: the buffers after the per-class draws
Mandatory(a) ==
    {l \o u \o d \o p \o s :
        l \in MandatoryOf(~a.exclude_lowercase, lowercase, a),
        u \in MandatoryOf(~a.exclude_uppercase, uppercase, a),
        d \in MandatoryOf(~a.exclude_numbers, digits, a),
        p \in MandatoryOf(~a.exclude_punctuation, punctuation, a),
        s \in MandatorySpace(a)}

\* Filled with one character too many: remaining_length off by one
FilledOneMore(a, password) ==
    LET remaining_length == a.password_length - Len(password) + 1
    IN  IF remaining_length > 0
        THEN {password \o f : f \in Choices(all_chars(a), remaining_length)}
        ELSE {password}

\* lines 99-103: the buffer filled up to password_length
Filled(a, password) ==
    LET remaining_length == a.password_length - Len(password)
    IN  IF remaining_length > 0
        THEN {password \o f : f \in Choices(all_chars(a), remaining_length)}
        ELSE {password}

\* lines 72-107
Constrained(a) ==
    UNION {UNION {{Slice(s, a.password_length) : s \in Shuffles(f)} :
                    f \in Filled(a, m)} :
            m \in Mandatory(a)}

\* line 109
Unconstrained(a) == Choices(all_chars(a), a.password_length)

Raised(e) == [raised |-> TRUE, error |-> e, value |-> <<>>]

Returned(v) == [raised |-> FALSE, error |-> "", value |-> v]

\* the outcomes of one call: the strings it can return, or the error it raises
generate_secret_value(a) ==
    IF all_chars(a) = <<>>
    THEN {Raised("ValueError")}
    ELSE IF a.require_each_included_type
         THEN {Returned(v) : v \in Constrained(a)}
         ELSE {Returned(v) : v \in Unconstrained(a)}

(***************************************************************************)
(* json.loads and json.dumps (lines 144, 156, 213) on the str model.  A    *)
(* JSON value is a record [t, v]: t is "obj" (v a sequence of [k, v]       *)
(* members in insertion order, as a Python dict keeps them), "arr" (v a    *)
(* sequence of values), "str" (v the characters), "int" (v the digits) or  *)
(* "lit" (v the characters of true, false or null).  Floats, the escapes   *)
(* \b \f \uXXXX and non-ASCII characters occur in no modelled input.       *)
(***************************************************************************)
JStr(chars) == [t |-> "str", v |-> chars]

JObj(members) == [t |-> "obj", v |-> members]

Fail == [ok |-> FALSE, val |-> JStr(<<>>), pos |-> 0]

Ok(val, pos) == [ok |-> TRUE, val |-> val, pos |-> pos]

DigitChars == Range(ascii_digits)

\* DictSet as d.setdefault(k, v): an existing key keeps its value
DictSetDefault(d, k, v) ==
    IF \E i \in 1..Len(d) : d[i].k = k THEN d ELSE Append(d, [k |-> k, v |-> v])

\* DictSet as a list append: an existing key gets a second entry
DictSetAppend(d, k, v) == Append(d, [k |-> k, v |-> v])

\* d[k] = v on a dict: an existing key keeps its place, a new one goes last
DictSet(d, k, v) ==
    IF \E i \in 1..Len(d) : d[i].k = k
    THEN [i \in 1..Len(d) |-> IF d[i].k = k THEN [k |-> k, v |-> v] ELSE d[i]]
    ELSE Append(d, [k |-> k, v |-> v])

HasKey(d, k) == \E i \in 1..Len(d) : d[i].k = k

\* d[k], for a key the dict has
DictGet(d, k) == d[CHOOSE i \in 1..Len(d) : d[i].k = k].v

RECURSIVE SkipWs(_, _)
SkipWs(s, i) ==
    IF i <= Len(s) /\ s[i] \in {" ", "\n", "\t", "\r"} THEN SkipWs(s, i + 1) ELSE i

\* the characters of a JSON string whose opening quote is before position i
RECURSIVE ScanString(_, _, _)
ScanString(s, i, acc) ==
    IF i > Len(s) THEN Fail
    ELSE IF s[i] = "\"" THEN Ok(JStr(acc), i + 1)
    ELSE IF s[i] \in {"\n", "\t", "\r"} THEN Fail
    ELSE IF s[i] = "\\"
         THEN IF i + 1 > Len(s) THEN Fail
              ELSE IF s[i + 1] \in {"\"", "\\", "/"}
                   THEN ScanString(s, i + 2, Append(acc, s[i + 1]))
              ELSE IF s[i + 1] = "n" THEN ScanString(s, i + 2, Append(acc, "\n"))
              ELSE IF s[i + 1] = "t" THEN ScanString(s, i + 2, Append(acc, "\t"))
              ELSE IF s[i + 1] = "r" THEN ScanString(s, i + 2, Append(acc, "\r"))
              ELSE Fail
    ELSE ScanString(s, i + 1, Append(acc, s[i]))

RECURSIVE ScanDigits(_, _)
ScanDigits(s, i) ==
    IF i <= Len(s) /\ s[i] \in DigitChars THEN ScanDigits(s, i + 1) ELSE i

\* an integer starting at position i: -? (0 | [1-9][0-9]*)
ScanNumber(s, i) ==
    LET first == IF s[i] = "-" THEN i + 1 ELSE i
        stop == IF first <= Len(s) /\ s[first] = "0"
                THEN first + 1
                ELSE ScanDigits(s, first)
        digs == SubSeq(s, first, stop - 1)
    IN  IF stop = first THEN Fail
        ELSE IF s[i] = "-" /\ digs # <<"0">>
             THEN Ok([t |-> "int", v |-> <<"-">> \o digs], stop)
             ELSE Ok([t |-> "int", v |-> digs], stop)

Literals == {<<"t","r","u","e">>, <<"f","a","l","s","e">>, <<"n","u","l","l">>}

ScanLiteral(s, i) ==
    IF \E w \in Literals : SubSeq(s, i, Min(Len(s), i + Len(w) - 1)) = w
    THEN LET w == CHOOSE w \in Literals :
                    SubSeq(s, i, Min(Len(s), i + Len(w) - 1)) = w
         IN  Ok([t |-> "lit", v |-> w], i + Len(w))
    ELSE Fail

RECURSIVE ScanValue(_, _), ScanElements(_, _, _), ScanMembers(_, _, _)
\* the JSON value starting at or after position i
ScanValue(s, i) ==
    LET j == SkipWs(s, i)
    IN  IF j > Len(s) THEN Fail
        ELSE IF s[j] = "\"" THEN ScanString(s, j + 1, <<>>)
        ELSE IF s[j] = "{"
             THEN IF SkipWs(s, j + 1) <= Len(s) /\ s[SkipWs(s, j + 1)] = "}"
                  THEN Ok(JObj(<<>>), SkipWs(s, j + 1) + 1)
                  ELSE ScanMembers(s, j + 1, <<>>)
        ELSE IF s[j] = "["
             THEN IF SkipWs(s, j + 1) <= Len(s) /\ s[SkipWs(s, j + 1)] = "]"
                  THEN Ok([t |-> "arr", v |-> <<>>], SkipWs(s, j + 1) + 1)
                  ELSE ScanElements(s, j + 1, <<>>)
        ELSE IF s[j] = "-" \/ s[j] \in DigitChars THEN ScanNumber(s, j)
        ELSE ScanLiteral(s, j)

\* the elements of an array from position i on, acc the ones already read
ScanElements(s, i, acc) ==
    LET e == ScanValue(s, i)
        j == SkipWs(s, e.pos)
    IN  IF ~e.ok \/ j > Len(s) THEN Fail
        ELSE IF s[j] = "," THEN ScanElements(s, j + 1, Append(acc, e.val))
        ELSE IF s[j] = "]" THEN Ok([t |-> "arr", v |-> Append(acc, e.val)], j + 1)
        ELSE Fail

\* the members of an object from position i on, acc the dict built so far
ScanMembers(s, i, acc) ==
    LET q == SkipWs(s, i)
        key == IF q <= Len(s) /\ s[q] = "\"" THEN ScanString(s, q + 1, <<>>) ELSE Fail
        c == SkipWs(s, key.pos)
        e == IF key.ok /\ c <= Len(s) /\ s[c] = ":" THEN ScanValue(s, c + 1) ELSE Fail
        j == SkipWs(s, e.pos)
    IN  IF ~e.ok \/ j > Len(s) THEN Fail
        ELSE IF s[j] = "," THEN ScanMembers(s, j + 1, DictSet(acc, key.val.v, e.val))
        ELSE IF s[j] = "}" THEN Ok(JObj(DictSet(acc, key.val.v, e.val)), j + 1)
        ELSE Fail

\* json.loads(s): ok is FALSE where it raises json.JSONDecodeError
json_loads(s) ==
    LET r == ScanValue(s, 1)
    IN  IF r.ok /\ SkipWs(s, r.pos) > Len(s) THEN r ELSE Fail

RECURSIVE Escaped(_)
Escaped(chars) ==
    IF chars = <<>> THEN <<>>
    ELSE (CASE Head(chars) = "\"" -> <<"\\", "\"">>
            [] Head(chars) = "\\" -> <<"\\", "\\">>
            [] Head(chars) = "\n" -> <<"\\", "n">>
            [] Head(chars) = "\t" -> <<"\\", "t">>
            [] Head(chars) = "\r" -> <<"\\", "r">>
            [] OTHER -> <<Head(chars)>>) \o Escaped(Tail(chars))

Quoted(chars) == <<"\"">> \o Escaped(chars) \o <<"\"">>

RECURSIVE json_dumps(_), DumpElements(_), DumpMembers(_)
\* json.dumps(val) with the default separators ", " and ": "
json_dumps(val) ==
    CASE val.t = "str" -> Quoted(val.v)
      [] val.t = "obj" -> <<"{">> \o DumpMembers(val.v) \o <<"}">>
      [] val.t = "arr" -> <<"[">> \o DumpElements(val.v) \o <<"]">>
      [] OTHER -> val.v

DumpElements(es) ==
    IF es = <<>> THEN <<>>
    ELSE json_dumps(Head(es))
         \o (IF Len(es) > 1 THEN <<",", " ">> \o DumpElements(Tail(es)) ELSE <<>>)

DumpMembers(ms) ==
    IF ms = <<>> THEN <<>>
    ELSE Quoted(Head(ms).k) \o <<":", " ">> \o json_dumps(Head(ms).v)
         \o (IF Len(ms) > 1 THEN <<",", " ">> \o DumpMembers(Tail(ms)) ELSE <<>>)

NoCall == [raised |-> FALSE, error |-> "none", value |-> <<>>]

None == [present |-> FALSE, val |-> <<>>]

Some(v) == [present |-> TRUE, val |-> v]

\* the truth value of an optional str: None and '' are false
Truthy(o) == o.present /\ o.val # <<>>

(***************************************************************************)
(* generate_multiple_secrets (lines 112-182): one round of its loop.       *)
(***************************************************************************)
\* lines 128-135
ArgsOf(kc) ==
    [password_length |-> kc.passwordLength,
     exclude_characters |-> kc.excludeCharacters,
     exclude_lowercase |-> kc.excludeLowercase,
     exclude_numbers |-> kc.excludeNumbers,
     exclude_punctuation |-> kc.excludePunctuation,
     exclude_uppercase |-> kc.excludeUppercase,
     include_space |-> kc.includeSpace,
     require_each_included_type |-> kc.requireEachIncludedType]

Round(call, error, value) == [call |-> call, error |-> error, value |-> value]

\* lines 159, 171: the generated string itself is the value
Plain(call) ==
    IF call.raised THEN Round(call, call.error, <<>>)
    ELSE Round(call, "", call.value)

\* lines 145-156: the generated string put into the parsed template
Merged(template_obj, generate_string_key, call) ==
    IF call.raised THEN Round(call, call.error, <<>>)
    ELSE IF template_obj.t # "obj" THEN Round(call, "TypeError", <<>>)
    ELSE Round(call, "",
               json_dumps(JObj(DictSet(template_obj.v, generate_string_key,
                                       JStr(call.value)))))

\* Rounds without the except clause of line 157: the parse error leaves
RoundsStrict(kc) ==
    LET calls == generate_secret_value(ArgsOf(kc))
        parsed == json_loads(kc.secretStringTemplate.val)
    IN  IF Truthy(kc.secretStringTemplate) /\ Truthy(kc.generateStringKey)
        THEN IF parsed.ok
             THEN {Merged(parsed.val, kc.generateStringKey.val, c) : c \in calls}
             ELSE {Round(NoCall, "JSONDecodeError", <<>>)}
        ELSE {Plain(c) : c \in calls}

\* lines 138-180: the ways one round can end, error "" where it stores value
Rounds(kc) ==
    LET calls == generate_secret_value(ArgsOf(kc))
        parsed == json_loads(kc.secretStringTemplate.val)
    IN  IF Truthy(kc.secretStringTemplate) /\ Truthy(kc.generateStringKey)
        THEN IF parsed.ok
             THEN {Merged(parsed.val, kc.generateStringKey.val, c) : c \in calls}
             ELSE {Plain(c) : c \in calls}
        ELSE {Plain(c) : c \in calls}

(***************************************************************************)
(* The inputs.                                                             *)
(***************************************************************************)
\* exclude_characters: nothing, the first character of a class, a whole class
Exclusions ==
    {<<>>} \cup {<<c[1]>> : c \in {lowercase, uppercase, digits, punctuation}}
           \cup {lowercase, uppercase, digits, punctuation, space}

Lengths == (0 - 1)..MaxLen

\* the arguments generate_secret_value is called with directly
GenArgs ==
    [password_length : Lengths,
     exclude_characters : Exclusions,
     exclude_lowercase : BOOLEAN,
     exclude_numbers : BOOLEAN,
     exclude_punctuation : BOOLEAN,
     exclude_uppercase : BOOLEAN,
     include_space : BOOLEAN,
     require_each_included_type : BOOLEAN]

Names == {<<"d","b">>, <<"a","p","i">>}

TemplateUser == <<"{","\"","u","\"",":","\"","x","\"","}">>

TemplateBoth == <<"{","\"","p","\"",":"," ","7",",","\"","u","\"",":","\"","x","\"","}">>

TemplateBroken == <<"{","n","o","t"," ","j","s","o","n">>

TemplateArray == <<"[","1","]">>

Templates ==
    {None, Some(<<>>), Some(TemplateUser), Some(TemplateBoth),
     Some(TemplateBroken), Some(TemplateArray)}

GenerateStringKeys == {None, Some(<<"p">>)}

\* the SecretKeys records: lowercase letters only, or no class at all
KeyConfigs ==
    [name : Names,
     passwordLength : 0..MaxBatchLen,
     excludeCharacters : {<<>>},
     excludeLowercase : BOOLEAN,
     excludeNumbers : {TRUE},
     excludePunctuation : {TRUE},
     excludeUppercase : {TRUE},
     includeSpace : {FALSE},
     requireEachIncludedType : {FALSE},
     secretStringTemplate : Templates,
     generateStringKey : GenerateStringKeys]

SecretArn == "arn:secret"

PhysicalResourceIds == {"populator-1", "populator-2"}

\* the id matters to Delete alone (line 231)
Events ==
    [RequestType : {"Create", "Update"},
     PhysicalResourceId : {"populator-1"},
     n : 0..MaxKeys]
    \cup [RequestType : {"Delete", "Replace"},
          PhysicalResourceId : PhysicalResourceIds,
          n : 0..MaxKeys]

NoEvent == [RequestType |-> "", PhysicalResourceId |-> "", n |-> 0]

NoKeyConfig == [name |-> <<>>]

NoArgs == [password_length |-> 0]

NoResponse == [kind |-> "none", error |-> "", PhysicalResourceId |-> <<>>, Data |-> {}]

RaisedResponse(e) ==
    [kind |-> "raised", error |-> e, PhysicalResourceId |-> <<>>, Data |-> {}]

(***************************************************************************)
(* generate_secret_value called directly.                                  *)
(***************************************************************************)
InitGen ==
    /\ args \in GenArgs
    /\ result = NoCall
    /\ event = NoEvent
    /\ pc = "direct"
    /\ idx = 0
    /\ key_config = NoKeyConfig
    /\ secret_values = <<>>
    /\ names_read = {}
    /\ store = <<>>
    /\ response = NoResponse

CallGenerate ==
    /\ pc = "direct"
    /\ result = NoCall
    /\ result' \in generate_secret_value(args)
    /\ UNCHANGED <<event, pc, idx, key_config, args, secret_values, names_read,
                   store, response>>

NextGen == CallGenerate

SpecGen == InitGen /\ [][NextGen]_vars

(***************************************************************************)
(* handler (lines 185-235).                                                *)
(***************************************************************************)
Init ==
    /\ event \in Events
    /\ pc = "start"
    /\ idx = 0
    /\ key_config = NoKeyConfig
    /\ args = NoArgs
    /\ result = NoCall
    /\ secret_values = <<>>
    /\ names_read = {}
    /\ store = <<>>
    /\ response = NoResponse

\* Dispatch with Delete taken for a Create
DispatchAll ==
    /\ pc = "start"
    /\ event.RequestType \in {"Create", "Update", "Delete"}
    /\ pc' = "loop"
    /\ UNCHANGED <<event, idx, key_config, args, result, secret_values,
                   names_read, store, response>>

\* line 200: Create and Update go on to generate_multiple_secrets (line 208)
Dispatch ==
    /\ pc = "start"
    /\ event.RequestType \in {"Create", "Update"}
    /\ pc' = "loop"
    /\ UNCHANGED <<event, idx, key_config, args, result, secret_values,
                   names_read, store, response>>

\* lines 228-232
Delete ==
    /\ pc = "start"
    /\ event.RequestType = "Delete"
    /\ pc' = "done"
    /\ response' = [kind |-> "returned", error |-> "",
                    PhysicalResourceId |-> <<event.PhysicalResourceId>>,
                    Data |-> {}]
    /\ UNCHANGED <<event, idx, key_config, args, result, secret_values,
                   names_read, store>>

\* lines 234-235
UnknownRequestType ==
    /\ pc = "start"
    /\ event.RequestType \notin {"Create", "Update", "Delete"}
    /\ pc' = "raised"
    /\ response' = RaisedResponse("ValueError")
    /\ UNCHANGED <<event, idx, key_config, args, result, secret_values,
                   names_read, store>>

\* lines 124-180 with lines 224-226: one round of the loop, on the next record
\* of event['ResourceProperties']['SecretKeys'], read as the loop reaches it
ProcessKey ==
    /\ pc = "loop"
    /\ idx < event.n
    /\ \E kc \in KeyConfigs : \E r \in Rounds(kc) :
        /\ key_config' = kc
        /\ args' = ArgsOf(kc)
        /\ result' = r.call
        /\ IF r.error = ""
           THEN /\ secret_values' = DictSet(secret_values, kc.name, r.value)
                /\ names_read' = names_read \cup {kc.name}
                /\ idx' = idx + 1
                /\ UNCHANGED <<pc, response>>
           ELSE /\ pc' = "raised"
                /\ response' = RaisedResponse(r.error)
                /\ UNCHANGED <<secret_values, names_read, idx>>
    /\ UNCHANGED <<event, store>>

\* secret_values as the dict json.dumps is given on line 213
AsObject(d) == JObj([i \in 1..Len(d) |-> [k |-> d[i].k, v |-> JStr(d[i].v)]])

\* LoopDone without the end of the loop: the write may come mid-batch
LoopDoneEarly == pc = "loop"

\* line 182 reached: generate_multiple_secrets has returned
LoopDone == pc = "loop" /\ idx = event.n

\* lines 211-222
UpdateSecret ==
    /\ LoopDone
    /\ store' = Append(store, [SecretId |-> SecretArn,
                               SecretString |-> json_dumps(AsObject(secret_values))])
    /\ pc' = "done"
    /\ response' = [kind |-> "returned", error |-> "",
                    PhysicalResourceId |-> <<"secret-populator-", SecretArn>>,
                    Data |-> {[SecretArn |-> SecretArn, Success |-> TRUE]}]
    /\ UNCHANGED <<event, idx, key_config, args, result, secret_values, names_read>>

\* lines 211-214 with 224-226: the store refuses the write
UpdateSecretRaises ==
    /\ LoopDone
    /\ pc' = "raised"
    /\ response' = RaisedResponse("ClientError")
    /\ UNCHANGED <<event, idx, key_config, args, result, secret_values,
                   names_read, store>>

Next ==
    \/ Dispatch
    \/ Delete
    \/ UnknownRequestType
    \/ ProcessKey
    \/ UpdateSecret
    \/ UpdateSecretRaises

Spec == Init /\ [][Next]_vars

(***************************************************************************)
(* The policy of a call, stated on sets.                                   *)
(***************************************************************************)
EnabledClasses(a) ==
    (IF a.exclude_lowercase THEN {} ELSE {lowercase})
    \cup (IF a.exclude_uppercase THEN {} ELSE {uppercase})
    \cup (IF a.exclude_numbers THEN {} ELSE {digits})
    \cup (IF a.exclude_punctuation THEN {} ELSE {punctuation})
    \cup (IF a.include_space THEN {space} ELSE {})

Allowed(a) ==
    UNION {Range(class) : class \in EnabledClasses(a)} \ Range(a.exclude_characters)

Called == result # NoCall

ReturnedString == Called /\ ~result.raised

\* the classes whose characters exclude_characters does not remove entirely
LiveClasses(a) ==
    {class \in EnabledClasses(a) : Range(class) \ Range(a.exclude_characters) # {}}

(***************************************************************************)
(* Claims about generate_secret_value, under SpecGen.                      *)
(***************************************************************************)
\* C1: with a non-empty combined alphabet and password_length > 0 the call
\* returns a string of exactly password_length characters, in both modes,
\* also where the mandatory characters outnumber password_length.
C1_ExactLength ==
    (Called /\ Allowed(args) # {} /\ args.password_length > 0)
        => (~result.raised /\ Len(result.value) = args.password_length)

\* a constrained call whose mandatory characters outnumber the length asked
C1_Witness ==
    /\ ReturnedString
    /\ args.require_each_included_type
    /\ args.password_length > 0
    /\ Cardinality(LiveClasses(args)) > args.password_length
    /\ Len(result.value) = args.password_length

\* C2: every character of a returned string is in an enabled class and not
\* in exclude_characters, the mandatory characters as well as the filler.
C2_OnlyAllowedCharacters ==
    ReturnedString => \A i \in 1..Len(result.value) : result.value[i] \in Allowed(args)

\* a constrained call on a class that exclude_characters removes in part
C2_Witness ==
    /\ ReturnedString
    /\ args.require_each_included_type
    /\ args.exclude_characters = <<lowercase[1]>>
    /\ ~args.exclude_lowercase
    /\ ~args.exclude_numbers
    /\ args.password_length = MaxLen
    /\ \E i \in 1..Len(result.value) : result.value[i] \in Range(lowercase)

\* C3: with require_each_included_type and password_length at least the
\* number of enabled classes, the returned string has a character of every
\* enabled class that exclude_characters does not remove entirely.
C3_EachIncludedType ==
    (/\ ReturnedString
     /\ args.require_each_included_type
     /\ args.password_length >= Cardinality(EnabledClasses(args)))
        => \A class \in LiveClasses(args) :
              \E i \in 1..Len(result.value) : result.value[i] \in Range(class)

\* as many enabled classes as characters asked for, one of them removed
\* entirely by exclude_characters: a filler character is drawn as well
C3_Witness ==
    /\ ReturnedString
    /\ args.require_each_included_type
    /\ args.password_length = MaxLen
    /\ Cardinality(EnabledClasses(args)) = MaxLen
    /\ Cardinality(LiveClasses(args)) = MaxLen - 1
    /\ Len(result.value) = MaxLen

\* C4: with an empty combined alphabet the call raises and returns no
\* string, whatever password_length and the mode.
C4_EmptyAlphabetRaises ==
    (Called /\ Allowed(args) = {}) => (result.raised /\ result.value = <<>>)

\* the exclusion string, not the flags, empties the alphabet
C4_Witness ==
    /\ Called
    /\ result.raised
    /\ EnabledClasses(args) # {}
    /\ args.exclude_characters # <<>>
    /\ args.require_each_included_type

\* C5: a call with a non-positive password_length raises and returns no
\* string.
C5_NonPositiveLengthRaises ==
    (Called /\ args.password_length <= 0) => result.raised

(***************************************************************************)
(* Claims about handler and generate_multiple_secrets, under Spec.         *)
(***************************************************************************)
\* a round of the loop has run, on key_config
RoundRun == key_config # NoKeyConfig

\* the latest round raised (the store's refusal comes after the loop)
RoundRaised == response.kind = "raised" /\ response.error # "ClientError"

Entry(name) == DictGet(secret_values, name)

\* what the store has seen, against where handler is
C6_StoreState ==
    /\ Len(store) <= 1
    /\ store # <<>> =>
        /\ pc = "done"
        /\ idx = event.n
        /\ response.kind = "returned"
        /\ json_loads(store[1].SecretString).ok
        /\ json_loads(store[1].SecretString).val = AsObject(secret_values)
    /\ (pc = "raised") = (response.kind = "raised")
    /\ response.kind = "raised" => store = <<>>
    /\ (RoundRun /\ result.raised) =>
        /\ pc = "raised"
        /\ response.error = result.error
        /\ idx < event.n

\* C6: update_secret is called at most once, and only when every record of
\* the batch has been generated; a failing round ends the loop at once (no
\* step follows it), the error leaves handler and update_secret is never
\* called, so the store sees the whole mapping or nothing.
C6_NoPartialWrite ==
    /\ []C6_StoreState
    /\ [][/\ pc # "raised"
          /\ store' # store => (idx = event.n /\ idx' = idx)]_vars

\* the second record fails after the first was stored in the dict
C6_Witness ==
    /\ pc = "raised"
    /\ result.raised
    /\ idx = 1
    /\ event.n > idx
    /\ secret_values # <<>>
    /\ store = <<>>

\* C7: a record with a generateStringKey and a secretStringTemplate that is
\* not JSON, on a non-empty alphabet, has the generated string itself stored
\* under its name (of the length asked, of allowed characters only), and no
\* error of that round leaves the loop.
C7_MalformedTemplateFallsBack ==
    (/\ RoundRun
     /\ Truthy(key_config.generateStringKey)
     /\ key_config.secretStringTemplate.present
     /\ ~json_loads(key_config.secretStringTemplate.val).ok
     /\ Allowed(args) # {})
        => /\ ~RoundRaised
           /\ ReturnedString
           /\ HasKey(secret_values, key_config.name)
           /\ Entry(key_config.name) = result.value
           /\ Len(result.value) = key_config.passwordLength
           /\ Range(result.value) \subseteq Allowed(args)
           /\ idx >= 1

\* the broken template on the first of several records, the loop still on
C7_Witness ==
    /\ RoundRun
    /\ pc = "loop"
    /\ idx < event.n
    /\ key_config.generateStringKey = Some(<<"p">>)
    /\ key_config.secretStringTemplate = Some(TemplateBroken)
    /\ key_config.passwordLength = MaxBatchLen
    /\ Entry(key_config.name) = result.value
    /\ Len(result.value) = MaxBatchLen

\* the value a template and a generated string must give: parsed back, the
\* stored str is an object with the string under the key, the template's
\* other members as they were, and no member more
MergedInto(stored, template, key, generated) ==
    LET back == json_loads(stored)
        tmpl == json_loads(template).val.v
    IN  /\ back.ok
        /\ back.val.t = "obj"
        /\ HasKey(back.val.v, key)
        /\ DictGet(back.val.v, key) = JStr(generated)
        /\ \A i \in 1..Len(tmpl) :
              tmpl[i].k # key =>
                /\ HasKey(back.val.v, tmpl[i].k)
                /\ DictGet(back.val.v, tmpl[i].k) = tmpl[i].v
        /\ \A i \in 1..Len(back.val.v) :
              back.val.v[i].k = key \/ HasKey(tmpl, back.val.v[i].k)

\* a record without a template or without a key stores the generated string
C8_RawWithoutTemplateOrKey ==
    (/\ RoundRun
     /\ ~key_config.secretStringTemplate.present \/ ~key_config.generateStringKey.present
     /\ Allowed(args) # {})
        => /\ ~RoundRaised
           /\ ReturnedString
           /\ HasKey(secret_values, key_config.name)
           /\ Entry(key_config.name) = result.value

\* C8 as stated: whenever the template parses as JSON and the key is set, the
\* stored value is the template with the generated string under the key.
C8_AnyJsonTemplateMerged ==
    /\ (/\ RoundRun
        /\ Truthy(key_config.generateStringKey)
        /\ Truthy(key_config.secretStringTemplate)
        /\ json_loads(key_config.secretStringTemplate.val).ok
        /\ Allowed(args) # {})
          => /\ ~RoundRaised
             /\ ReturnedString
             /\ HasKey(secret_values, key_config.name)
             /\ MergedInto(Entry(key_config.name), key_config.secretStringTemplate.val,
                           key_config.generateStringKey.val, result.value)
    /\ C8_RawWithoutTemplateOrKey

\* C8, amended: whenever the template parses as a JSON object and the key is
\* set (alphabet non-empty), the stored value is the serialization of that
\* object with the generated string under the key, replacing what was there,
\* every other member unchanged; without a template or without a key the
\* stored value is the generated string.
C8_ObjectTemplateMerged ==
    /\ (/\ RoundRun
        /\ Truthy(key_config.generateStringKey)
        /\ Truthy(key_config.secretStringTemplate)
        /\ json_loads(key_config.secretStringTemplate.val).ok
        /\ json_loads(key_config.secretStringTemplate.val).val.t = "obj"
        /\ Allowed(args) # {})
          => /\ ~RoundRaised
             /\ ReturnedString
             /\ HasKey(secret_values, key_config.name)
             /\ MergedInto(Entry(key_config.name), key_config.secretStringTemplate.val,
                           key_config.generateStringKey.val, result.value)
    /\ C8_RawWithoutTemplateOrKey

\* the template that already has the key: its value is replaced
C8_Witness ==
    /\ RoundRun
    /\ ~RoundRaised
    /\ key_config.generateStringKey = Some(<<"p">>)
    /\ key_config.secretStringTemplate = Some(TemplateBoth)
    /\ Len(result.value) = MaxBatchLen
    /\ HasKey(secret_values, key_config.name)
    /\ DictGet(json_loads(Entry(key_config.name)).val.v, <<"p">>) = JStr(result.value)
    /\ DictGet(json_loads(Entry(key_config.name)).val.v, <<"u">>) = JStr(<<"x">>)

\* C9: on Delete, handler calls neither the generator nor the store and
\* returns the event's PhysicalResourceId and nothing else.
C9_DeleteTouchesNothing ==
    event.RequestType = "Delete" =>
        /\ pc \in {"start", "done"}
        /\ ~Called
        /\ ~RoundRun
        /\ idx = 0
        /\ secret_values = <<>>
        /\ store = <<>>
        /\ pc = "done" =>
              response = [kind |-> "returned", error |-> "",
                          PhysicalResourceId |-> <<event.PhysicalResourceId>>,
                          Data |-> {}]

\* a Delete event that carries SecretKeys records has been answered
C9_Witness ==
    /\ event.RequestType = "Delete"
    /\ event.n > 0
    /\ event.PhysicalResourceId = "populator-2"
    /\ pc = "done"
    /\ response.PhysicalResourceId = <<"populator-2">>

\* the generated string of the latest round is what the entry holds: itself,
\* or a member of the object the entry serializes
Carries(stored, generated) ==
    \/ stored = generated
    \/ /\ json_loads(stored).ok
       /\ json_loads(stored).val.t = "obj"
       /\ \E i \in 1..Len(json_loads(stored).val.v) :
              json_loads(stored).val.v[i].v = JStr(generated)

\* the dict against the names read so far, and its latest entry
C10_Mapping ==
    /\ \A i, j \in 1..Len(secret_values) :
          secret_values[i].k = secret_values[j].k => i = j
    /\ {secret_values[i].k : i \in 1..Len(secret_values)} = names_read
    /\ Len(secret_values) = Cardinality(names_read)
    /\ Len(secret_values) <= idx
    /\ (RoundRun /\ ~RoundRaised) =>
          /\ HasKey(secret_values, key_config.name)
          /\ ReturnedString
          /\ Carries(Entry(key_config.name), result.value)
          /\ Len(result.value) = key_config.passwordLength
          /\ Range(result.value) \subseteq Allowed(args)

\* a round leaves the entries of the other names as they are
C10_Round ==
    idx' = idx + 1 =>
        \A i \in 1..Len(secret_values) :
            secret_values[i].k # key_config'.name =>
                /\ HasKey(secret_values', secret_values[i].k)
                /\ DictGet(secret_values', secret_values[i].k) = secret_values[i].v

\* C10: the mapping of a batch whose records all succeed has exactly one entry
\* per distinct name and no other key, each entry that of its own record;
\* where two records share a name the entry is that of the later record.
C10_OneEntryPerName == []C10_Mapping /\ [][C10_Round]_vars

\* two records of one name: one entry, holding the later record's string
C10_Witness ==
    /\ pc = "done"
    /\ event.n = MaxKeys
    /\ idx = MaxKeys
    /\ Len(secret_values) = 1
    /\ Len(result.value) = MaxBatchLen
    /\ Entry(key_config.name) = result.value

====
